---- MODULE Spec2Model ----
(***************************************************************************)
(* Model of keyword_search_mcp_server.py: the path guard, the match        *)
(* finder, the match formatter and the search_keyword tool handler.        *)
(*                                                                         *)
(* A Python str is a sequence of characters; a character is a token:       *)
(*   "a" "A"          a cased ASCII pair                                   *)
(*   "LF" "CR"        line boundaries of str.splitlines ("LF" is "\n")     *)
(*   "Idot"           U+0130, whose lowercase is the two characters        *)
(*                    "i" "dot" (U+0069 U+0307)                            *)
(*   "Sigma"          U+03A3, whose lowercase is "fsigma" (U+03C2) in the  *)
(*                    Final_Sigma context and "sigma" (U+03C3) elsewhere   *)
(***************************************************************************)
EXTENDS Integers, Sequences, FiniteSets, TLC

VARIABLES
    normalized_root,   \* build_server: workspace_root.resolve()
    disk,              \* the text stored in the workspace file notes.txt
    inv,               \* one search_keyword invocation per host task
    fn                 \* a direct call of _collect_matches / Match.format

vars == <<normalized_root, disk, inv, fn>>

----------------------------------------------------------------------------
(* Bounds *)

MaxContentLen == 3     \* characters in the workspace file
MaxKeywordLen == 1     \* characters in a search_keyword keyword
MaxMatches == 2        \* largest max_matches argument
MaxLines == 2          \* lines handed to _collect_matches directly
MaxLineLen == 2        \* characters in such a line
MaxNeedleLen == 1      \* characters in the keyword of a direct call

FileAlphabet == {"a", "A", "LF"}
UnicodeAlphabet == {"a", "Idot", "LF"}
FnAlphabet == {"a", "A", "LF", "Idot", "Sigma"}

RECURSIVE Strings(_, _)
Strings(alphabet, n) ==
    IF n = 0 THEN {<<>>}
    ELSE LET shorter == Strings(alphabet, n - 1)
         IN  shorter \cup {Append(s, c) : s \in {x \in shorter : Len(x) = n - 1},
                                          c \in alphabet}

RECURSIVE Lists(_, _)
Lists(elems, n) ==
    IF n = 0 THEN {<<>>}
    ELSE LET shorter == Lists(elems, n - 1)
         IN  shorter \cup {Append(s, e) : s \in {x \in shorter : Len(x) = n - 1},
                                          e \in elems}

----------------------------------------------------------------------------
(* Python str operations used by the program *)

Min(a, b) == IF a < b THEN a ELSE b

\* s[a:b] for 0 <= a, 0 <= b: clamped to the string, empty when a >= b
Slice(s, a, b) ==
    LET hi == Min(b, Len(s))
    IN  IF a >= hi THEN <<>> ELSE SubSeq(s, a + 1, hi)

\* s[a:]
SliceFrom(s, a) == Slice(s, a, Len(s))

RECURSIVE Concat(_)
Concat(ss) == IF ss = <<>> THEN <<>> ELSE Head(ss) \o Concat(Tail(ss))

\* str.find: the 0-based offset of the first occurrence, -1 when there is none
Find(hay, needle) ==
    LET hits == {i \in 0..Len(hay) : Slice(hay, i, i + Len(needle)) = needle}
    IN  IF hits = {} THEN -1 ELSE CHOOSE i \in hits : \A j \in hits : i <= j

\* needle in hay
Contains(hay, needle) ==
    \E i \in 0..Len(hay) : Slice(hay, i, i + Len(needle)) = needle

\* Unicode properties of the characters of the model
Cased == {"a", "A", "i", "Idot", "Sigma", "sigma", "fsigma"}
CaseIgnorable == {"dot"}

\* Final_Sigma: \p{cased}\p{case-ignorable}* Sigma !(\p{case-ignorable}*\p{cased})
FinalSigma(s, i) ==
    LET before == {j \in 1..(i - 1) : s[j] \notin CaseIgnorable}
        after == {j \in (i + 1)..Len(s) : s[j] \notin CaseIgnorable}
        prev == CHOOSE j \in before : \A m \in before : m <= j
        next == CHOOSE j \in after : \A m \in after : j <= m
    IN  /\ before # {}
        /\ s[prev] \in Cased
        /\ (after = {} \/ s[next] \notin Cased)

LowerChar(s, i) ==
    CASE s[i] = "A" -> <<"a">>
      [] s[i] = "Idot" -> <<"i", "dot">>
      [] s[i] = "Sigma" -> IF FinalSigma(s, i) THEN <<"fsigma">> ELSE <<"sigma">>
      [] OTHER -> <<s[i]>>

\* str.lower
Lower(s) == Concat([i \in 1..Len(s) |-> LowerChar(s, i)])

RECURSIVE RStripLF(_)
\* str.rstrip("\n")
RStripLF(s) ==
    IF s # <<>> /\ s[Len(s)] = "LF" THEN RStripLF(SubSeq(s, 1, Len(s) - 1)) ELSE s

Whitespace == {"LF", "CR", " "}

RECURSIVE LStrip(_)
LStrip(s) == IF s # <<>> /\ Head(s) \in Whitespace THEN LStrip(Tail(s)) ELSE s

RECURSIVE RStrip(_)
RStrip(s) ==
    IF s # <<>> /\ s[Len(s)] \in Whitespace THEN RStrip(SubSeq(s, 1, Len(s) - 1)) ELSE s

\* str.strip()
Strip(s) == LStrip(RStrip(s))

DigitChars == <<"0", "1", "2", "3", "4", "5", "6", "7", "8", "9">>

RECURSIVE Digits(_)
\* str(n) for n >= 0
Digits(n) ==
    IF n < 10 THEN <<DigitChars[n + 1]>>
    ELSE Append(Digits(n \div 10), DigitChars[(n % 10) + 1])

LineBreaks == {"LF", "CR"}

RECURSIVE SplitFrom(_, _, _)
\* the lines of s[i..], cur being the line read so far; "CR" "LF" is one boundary
SplitFrom(s, i, cur) ==
    IF i > Len(s) THEN (IF cur = <<>> THEN <<>> ELSE <<cur>>)
    ELSE IF s[i] \in LineBreaks
         THEN LET crlf == s[i] = "CR" /\ i < Len(s) /\ s[i + 1] = "LF"
              IN  <<cur>> \o SplitFrom(s, IF crlf THEN i + 2 ELSE i + 1, <<>>)
         ELSE SplitFrom(s, i + 1, Append(cur, s[i]))

\* str.splitlines(): the boundaries are dropped, no empty last line
Splitlines(s) == SplitFrom(s, 1, <<>>)

RECURSIVE Join(_, _)
\* sep.join(parts)
Join(parts, sep) ==
    IF parts = <<>> THEN <<>>
    ELSE IF Len(parts) = 1 THEN parts[1]
    ELSE parts[1] \o sep \o Join(Tail(parts), sep)

----------------------------------------------------------------------------
(* Match, Match.format and _collect_matches *)

Match(line_number, line) == [line_number |-> line_number, line |-> line]

\* mutant: the case flag is ignored and the text always lowercased
FoldAlways(text, case_sensitive) == Lower(text)

\* keyword if case_sensitive else keyword.lower()
Fold(text, case_sensitive) == IF case_sensitive THEN text ELSE Lower(text)

\* Match.format
Format(match, keyword, case_sensitive) ==
    LET highlight == Fold(keyword, case_sensitive)
        search_line == Fold(match.line, case_sensitive)
        start_index == Find(search_line, highlight)
        end_index == start_index + Len(highlight)
        number == Digits(match.line_number) \o <<":", " ">>
    IN  IF start_index = -1
        THEN number \o Strip(match.line)
        ELSE RStripLF(number \o Slice(match.line, 0, start_index) \o <<"[">>
                      \o Slice(match.line, start_index, end_index) \o <<"]">>
                      \o SliceFrom(match.line, end_index))

\* the line a Match keeps: original_line.rstrip("\n")
StoredLine(original_line) == RStripLF(original_line)

\* if needle in haystack
LineMatches(original_line, needle, case_sensitive) ==
    Contains(Fold(original_line, case_sensitive), needle)

\* mutant: the loop stops one match late
ReachedLimitOffByOne(matches, max_matches) == Len(matches) > max_matches

\* if len(matches) >= max_matches: break
ReachedLimit(matches, max_matches) == Len(matches) >= max_matches

RECURSIVE CollectFrom(_, _, _, _, _, _)
\* the for loop of _collect_matches, about to look at line number index
CollectFrom(file_contents, index, needle, case_sensitive, max_matches, matches) ==
    IF index > Len(file_contents) THEN matches
    ELSE IF LineMatches(file_contents[index], needle, case_sensitive)
         THEN LET grown == Append(matches, Match(index, StoredLine(file_contents[index])))
              IN  IF ReachedLimit(grown, max_matches) THEN grown
                  ELSE CollectFrom(file_contents, index + 1, needle, case_sensitive,
                                   max_matches, grown)
         ELSE CollectFrom(file_contents, index + 1, needle, case_sensitive,
                          max_matches, matches)

\* _collect_matches
CollectMatches(file_contents, keyword, case_sensitive, max_matches) ==
    CollectFrom(file_contents, 1, Fold(keyword, case_sensitive), case_sensitive,
                max_matches, <<>>)

----------------------------------------------------------------------------
(* Direct calls of the two pure functions *)

FnIdle == [pc |-> "unused", file_contents |-> <<>>, keyword |-> <<>>,
           case_sensitive |-> FALSE, max_matches |-> 1, matches |-> <<>>,
           index |-> 0, rendered |-> <<>>]

FnLines == Lists(Strings(FnAlphabet, MaxLineLen), MaxLines)
FnKeywords == Strings(FnAlphabet, MaxNeedleLen) \ {<<>>}

\* matches = _collect_matches(file_contents, keyword, ...)
FnCollect ==
    /\ fn.pc = "call"
    /\ fn' = [fn EXCEPT !.pc = "collected",
                        !.matches = CollectMatches(fn.file_contents, fn.keyword,
                                                   fn.case_sensitive, fn.max_matches)]
    /\ UNCHANGED <<normalized_root, disk, inv>>

\* matches[i].format(keyword, case_sensitive)
FnFormat(i) ==
    /\ fn.pc = "collected"
    /\ i \in 1..Len(fn.matches)
    /\ fn' = [fn EXCEPT !.pc = "formatted", !.index = i,
                        !.rendered = Format(fn.matches[i], fn.keyword, fn.case_sensitive)]
    /\ UNCHANGED <<normalized_root, disk, inv>>

----------------------------------------------------------------------------
(* Paths and the file system the server runs on *)

\* pathlib.Path: is_absolute() and the components
Path(absolute, parts) == [absolute |-> absolute, parts |-> parts]

\* directories and files that exist, by absolute resolved path
FsDirs == {<<>>, <<"ws">>, <<"ws", "sub">>, <<"etc">>}
NotesFile == <<"ws", "notes.txt">>
BlobFile == <<"ws", "blob.bin">>
FsFiles == {NotesFile, BlobFile, <<"etc", "passwd">>}

RECURSIVE Normalize(_, _)
\* Path.resolve() of an absolute path: ".." steps to the parent, "/.." is "/"
Normalize(parts, done) ==
    IF parts = <<>> THEN done
    ELSE IF Head(parts) = ".."
         THEN Normalize(Tail(parts),
                        IF done = <<>> THEN <<>> ELSE SubSeq(done, 1, Len(done) - 1))
         ELSE Normalize(Tail(parts), Append(done, Head(parts)))

\* (root / candidate).resolve() if not candidate.is_absolute() else candidate.resolve()
ResolveAgainst(candidate, root) ==
    IF candidate.absolute THEN Normalize(candidate.parts, <<>>)
    ELSE Normalize(root \o candidate.parts, <<>>)

\* resolved.relative_to(root) does not raise ValueError
IsRelativeTo(resolved, root) ==
    /\ Len(root) <= Len(resolved)
    /\ SubSeq(resolved, 1, Len(root)) = root

\* resolved.relative_to(root)
RelativeTo(resolved, root) == SubSeq(resolved, Len(root) + 1, Len(resolved))

\* str(path) of a relative path
PathStr(parts) == IF parts = <<>> THEN <<".">> ELSE Join([i \in 1..Len(parts) |-> <<parts[i]>>], <<"/">>)

\* resolved_path.exists()
Exists(resolved) == resolved \in FsDirs \cup FsFiles

\* resolved_path.is_file()
IsFile(resolved) == resolved \in FsFiles

\* run_read_text: path.read_text(encoding="utf-8"); ok is FALSE for UnicodeDecodeError
RunReadTextResult(resolved, stored) ==
    IF resolved = NotesFile THEN [ok |-> TRUE, text |-> stored]
    ELSE IF resolved = BlobFile THEN [ok |-> FALSE, text |-> <<>>]
    ELSE [ok |-> TRUE, text |-> <<"r", "o", "o", "t">>]

WorkspaceRoot == Path(TRUE, <<"ws", "sub", "..">>)

----------------------------------------------------------------------------
(* search_keyword *)

Tasks == {1, 2}

NoError == "none"

Idle == [pc |-> "idle", file_path |-> Path(FALSE, <<>>), keyword |-> <<>>,
         case_sensitive |-> FALSE, max_matches |-> 0, resolved_path |-> <<>>,
         thread_result |-> [ok |-> TRUE, text |-> <<>>], matches |-> <<>>,
         result |-> <<>>, error |-> NoError, steps |-> <<>>, overlapped |-> FALSE]

TextContent(text) == [type |-> "text", text |-> text]

RECURSIVE SplitKeepEndsFrom(_, _, _)
SplitKeepEndsFrom(s, i, cur) ==
    IF i > Len(s) THEN (IF cur = <<>> THEN <<>> ELSE <<cur>>)
    ELSE IF s[i] \in LineBreaks
         THEN LET crlf == s[i] = "CR" /\ i < Len(s) /\ s[i + 1] = "LF"
                  stop == IF crlf THEN i + 1 ELSE i
              IN  <<cur \o SubSeq(s, i, stop)>> \o SplitKeepEndsFrom(s, stop + 1, <<>>)
         ELSE SplitKeepEndsFrom(s, i + 1, Append(cur, s[i]))

\* mutant: raw_contents.splitlines(keepends=True)
LinesKeepEnds(raw_contents) == SplitKeepEndsFrom(raw_contents, 1, <<>>)

\* raw_contents.splitlines()
Lines(raw_contents) == Splitlines(raw_contents)

NoMatchMessage(keyword, relative, case_sensitive) ==
    <<"No matches for '">> \o keyword \o <<"' in ">> \o PathStr(relative)
    \o <<" (case ", IF case_sensitive THEN "sensitive" ELSE "insensitive", " search).">>

Summary(count, keyword, relative) ==
    <<"Found ">> \o Digits(count) \o <<" match(es) for '">> \o keyword \o <<"' in ">>
    \o PathStr(relative) \o <<".">>

RenderedMatches(matches, keyword, case_sensitive) ==
    Join([i \in 1..Len(matches) |-> Format(matches[i], keyword, case_sensitive)], <<"LF">>)

\* mutant: no early return for an empty list of matches
ResponseNoEarlyReturn(matches, keyword, case_sensitive, relative) ==
    <<TextContent(Summary(Len(matches), keyword, relative)),
      TextContent(RenderedMatches(matches, keyword, case_sensitive))>>

\* the list of TextContent search_keyword returns
Response(matches, keyword, case_sensitive, relative) ==
    IF matches = <<>>
    THEN <<TextContent(NoMatchMessage(keyword, relative, case_sensitive))>>
    ELSE <<TextContent(Summary(Len(matches), keyword, relative)),
           TextContent(RenderedMatches(matches, keyword, case_sensitive))>>

InFlight(t) == inv[t].pc \notin {"idle", "returned", "raised"}

Raise(t, kind, step) ==
    inv' = [inv EXCEPT ![t].pc = "raised", ![t].error = kind,
                       ![t].steps = Append(@, step),
                       ![t].overlapped = @ \/ \E u \in Tasks \ {t} : InFlight(u)]

Advance(t, pc, step) ==
    inv' = [inv EXCEPT ![t].pc = pc, ![t].steps = Append(@, step)]

\* the host calls search_keyword(file_path, keyword, case_sensitive, max_matches)
\* with one of the given requests
Invoke(t, requests) ==
    /\ inv[t].pc = "idle"
    /\ \E request \in requests :
           inv' = [inv EXCEPT ![t].pc = "check_keyword",
                              ![t].file_path = request.file_path,
                              ![t].keyword = request.keyword,
                              ![t].case_sensitive = request.case_sensitive,
                              ![t].max_matches = request.max_matches]
    /\ UNCHANGED <<normalized_root, disk, fn>>

\* if not keyword: raise ValueError
CheckKeyword(t) ==
    /\ inv[t].pc = "check_keyword"
    /\ IF inv[t].keyword = <<>>
       THEN Raise(t, "EmptyKeyword", "keyword")
       ELSE Advance(t, "check_max_matches", "keyword")
    /\ UNCHANGED <<normalized_root, disk, fn>>

\* mutant: if max_matches < 0
CheckMaxMatchesNegativeOnly(t) ==
    /\ inv[t].pc = "check_max_matches"
    /\ IF inv[t].max_matches < 0
       THEN Raise(t, "BadMaxMatches", "max_matches")
       ELSE Advance(t, "ensure_within_root", "max_matches")
    /\ UNCHANGED <<normalized_root, disk, fn>>

\* if max_matches < 1: raise ValueError
CheckMaxMatches(t) ==
    /\ inv[t].pc = "check_max_matches"
    /\ IF inv[t].max_matches < 1
       THEN Raise(t, "BadMaxMatches", "max_matches")
       ELSE Advance(t, "ensure_within_root", "max_matches")
    /\ UNCHANGED <<normalized_root, disk, fn>>

\* mutant: _ensure_within_root looks for the file before it checks containment
EnsureWithinRootAfterExists(t) ==
    /\ inv[t].pc = "ensure_within_root"
    /\ LET resolved == ResolveAgainst(inv[t].file_path, normalized_root)
       IN  IF ~Exists(resolved)
           THEN Raise(t, "FileNotFound", "exists")
           ELSE IF IsRelativeTo(resolved, normalized_root)
           THEN inv' = [inv EXCEPT ![t].pc = "check_exists",
                                   ![t].resolved_path = resolved,
                                   ![t].steps = Append(@, "resolve")]
           ELSE Raise(t, "OutsideRoot", "resolve")
    /\ UNCHANGED <<normalized_root, disk, fn>>

\* resolved_path = _ensure_within_root(Path(file_path), normalized_root)
EnsureWithinRoot(t) ==
    /\ inv[t].pc = "ensure_within_root"
    /\ LET resolved == ResolveAgainst(inv[t].file_path, normalized_root)
       IN  IF IsRelativeTo(resolved, normalized_root)
           THEN inv' = [inv EXCEPT ![t].pc = "check_exists",
                                   ![t].resolved_path = resolved,
                                   ![t].steps = Append(@, "resolve")]
           ELSE Raise(t, "OutsideRoot", "resolve")
    /\ UNCHANGED <<normalized_root, disk, fn>>

\* mutant: a missing file is answered with an empty result instead of an error
CheckExistsSwallowed(t) ==
    /\ inv[t].pc = "check_exists"
    /\ IF Exists(inv[t].resolved_path)
       THEN Advance(t, "check_is_file", "exists")
       ELSE inv' = [inv EXCEPT ![t].pc = "returned", ![t].steps = Append(@, "exists")]
    /\ UNCHANGED <<normalized_root, disk, fn>>

\* if not resolved_path.exists(): raise FileNotFoundError
CheckExists(t) ==
    /\ inv[t].pc = "check_exists"
    /\ IF Exists(inv[t].resolved_path)
       THEN Advance(t, "check_is_file", "exists")
       ELSE Raise(t, "FileNotFound", "exists")
    /\ UNCHANGED <<normalized_root, disk, fn>>

\* if not resolved_path.is_file(): raise ValueError; else the read is handed to
\* a worker thread and the coroutine suspends at the await
CheckIsFile(t) ==
    /\ inv[t].pc = "check_is_file"
    /\ IF IsFile(inv[t].resolved_path)
       THEN Advance(t, "await_read", "is_file")
       ELSE Raise(t, "NotAFile", "is_file")
    /\ UNCHANGED <<normalized_root, disk, fn>>

\* mutant: the text read is kept in one buffer that all invocations share
RunReadTextShared(t) ==
    /\ inv[t].pc = "await_read"
    /\ inv' = [u \in Tasks |->
                 [IF u = t THEN [inv[u] EXCEPT !.pc = "resume", !.steps = Append(@, "read")]
                           ELSE inv[u]
                  EXCEPT !.thread_result = RunReadTextResult(inv[t].resolved_path, disk)]]
    /\ UNCHANGED <<normalized_root, disk, fn>>

\* the worker thread runs run_read_text(resolved_path)
RunReadText(t) ==
    /\ inv[t].pc = "await_read"
    /\ inv' = [inv EXCEPT ![t].pc = "resume",
                          ![t].thread_result = RunReadTextResult(inv[t].resolved_path, disk),
                          ![t].steps = Append(@, "read")]
    /\ UNCHANGED <<normalized_root, disk, fn>>

\* the coroutine resumes: except UnicodeDecodeError, else splitlines,
\* _collect_matches and the response
Resume(t) ==
    /\ inv[t].pc = "resume"
    /\ IF ~inv[t].thread_result.ok
       THEN inv' = [inv EXCEPT ![t].pc = "raised", ![t].error = "Decode",
                               ![t].overlapped = @ \/ \E u \in Tasks \ {t} : InFlight(u)]
       ELSE LET matches == CollectMatches(Lines(inv[t].thread_result.text), inv[t].keyword,
                                          inv[t].case_sensitive, inv[t].max_matches)
                relative == RelativeTo(inv[t].resolved_path, normalized_root)
            IN  inv' = [inv EXCEPT ![t].pc = "returned", ![t].matches = matches,
                                   ![t].result = Response(matches, inv[t].keyword,
                                                          inv[t].case_sensitive, relative),
                                   ![t].overlapped = @ \/ \E u \in Tasks \ {t} : InFlight(u)]
    /\ UNCHANGED <<normalized_root, disk, fn>>

----------------------------------------------------------------------------
(* Specifications *)

FilePaths ==
    {Path(FALSE, <<"notes.txt">>), Path(TRUE, <<"ws", "notes.txt">>),
     Path(FALSE, <<"missing.txt">>), Path(FALSE, <<"sub">>), Path(FALSE, <<"blob.bin">>),
     Path(FALSE, <<"..", "etc", "passwd">>), Path(FALSE, <<"..", "etc", "shadow">>),
     Path(TRUE, <<"etc", "passwd">>)}

Requests ==
    [file_path : FilePaths, keyword : Strings(FileAlphabet, MaxKeywordLen),
     case_sensitive : BOOLEAN, max_matches : 0..MaxMatches]

\* one invocation, any request, any text in the workspace file
Init ==
    /\ normalized_root = ResolveAgainst(WorkspaceRoot, <<>>)
    /\ disk \in Strings(FileAlphabet, MaxContentLen)
    /\ inv = [t \in Tasks |-> Idle]
    /\ fn = FnIdle

Next ==
    \/ Invoke(1, Requests)
    \/ CheckKeyword(1)
    \/ CheckMaxMatches(1)
    \/ EnsureWithinRoot(1)
    \/ CheckExists(1)
    \/ CheckIsFile(1)
    \/ RunReadText(1)
    \/ Resume(1)

Spec == Init /\ [][Next]_vars

\* one invocation on a workspace file that holds non-ASCII text
InitUnicode ==
    /\ normalized_root = ResolveAgainst(WorkspaceRoot, <<>>)
    /\ disk \in Strings(UnicodeAlphabet, MaxContentLen)
    /\ inv = [t \in Tasks |-> Idle]
    /\ fn = FnIdle

SpecUnicode == InitUnicode /\ [][Next]_vars

ConcDisk == {<<"a", "LF", "A">>, <<"A", "CR", "LF", "a", "a">>}

ConcRequests ==
    [file_path : {Path(FALSE, <<"notes.txt">>), Path(FALSE, <<"blob.bin">>),
                  Path(FALSE, <<"..", "etc", "passwd">>)},
     keyword : {<<"a">>, <<>>}, case_sensitive : BOOLEAN, max_matches : {1, 2}]

\* the host dispatches the invocations of all its tasks concurrently
InitConc ==
    /\ normalized_root = ResolveAgainst(WorkspaceRoot, <<>>)
    /\ disk \in ConcDisk
    /\ inv = [t \in Tasks |-> Idle]
    /\ fn = FnIdle

NextConc ==
    \E t \in Tasks :
        \/ Invoke(t, ConcRequests)
        \/ CheckKeyword(t)
        \/ CheckMaxMatches(t)
        \/ EnsureWithinRoot(t)
        \/ CheckExists(t)
        \/ CheckIsFile(t)
        \/ RunReadText(t)
        \/ Resume(t)

SpecConc == InitConc /\ [][NextConc]_vars

\* direct calls of _collect_matches and Match.format on any lines
InitFn ==
    /\ normalized_root = ResolveAgainst(WorkspaceRoot, <<>>)
    /\ disk = <<>>
    /\ inv = [t \in Tasks |-> Idle]
    /\ fn \in [pc : {"call"}, file_contents : FnLines, keyword : FnKeywords,
               case_sensitive : BOOLEAN, max_matches : 1..MaxMatches,
               matches : {<<>>}, index : {0}, rendered : {<<>>}]

NextFn ==
    \/ FnCollect
    \/ \E i \in 1..MaxMatches : FnFormat(i)

SpecFn == InitFn /\ [][NextFn]_vars

----------------------------------------------------------------------------
(* Properties *)

Called == {t \in Tasks : inv[t].pc # "idle"}
Finished == {t \in Tasks : inv[t].pc \in {"returned", "raised"}}
Returned == {t \in Tasks : inv[t].pc = "returned"}

\* the lines the invocation of task t scanned
ScannedLines(t) == Lines(inv[t].thread_result.text)

\* the line numbers of the lines that contain the (folded) keyword
MatchingLineNumbers(lines, keyword, case_sensitive) ==
    {i \in 1..Len(lines) :
        Contains(Fold(lines[i], case_sensitive), Fold(keyword, case_sensitive))}

\* C1: with max_matches = k >= 1 the matches collected are at most k, they are
\* the first k matching lines in file order (all of them when fewer than k
\* match), each with its 1-based line number and its line, in strictly
\* increasing line-number order.
C1_FirstKMatchingLines ==
    \A t \in Returned :
        LET lines == ScannedLines(t)
            hits == MatchingLineNumbers(lines, inv[t].keyword, inv[t].case_sensitive)
            m == inv[t].matches
        IN  /\ Len(m) <= inv[t].max_matches
            /\ Len(m) = Min(inv[t].max_matches, Cardinality(hits))
            /\ \A j \in 1..Len(m) :
                   /\ m[j].line_number \in hits
                   /\ Cardinality({i \in hits : i < m[j].line_number}) = j - 1
                   /\ m[j].line = RStripLF(lines[m[j].line_number])
            /\ \A j \in 1..(Len(m) - 1) : m[j].line_number < m[j + 1].line_number

\* a search that was cut at max_matches, leaving a later matching line out
C1_Witness ==
    \E t \in Returned :
        /\ Len(inv[t].matches) = inv[t].max_matches
        /\ Cardinality(MatchingLineNumbers(ScannedLines(t), inv[t].keyword,
                                           inv[t].case_sensitive)) > inv[t].max_matches

\* C1 on a direct call of _collect_matches, whose lines may hold newlines
\* (checked under SpecFn)
C1_FirstKMatchingLinesDirect ==
    fn.pc = "collected" =>
        LET hits == MatchingLineNumbers(fn.file_contents, fn.keyword, fn.case_sensitive)
            m == fn.matches
        IN  /\ Len(m) = Min(fn.max_matches, Cardinality(hits))
            /\ \A j \in 1..Len(m) :
                   /\ m[j].line_number \in hits
                   /\ Cardinality({i \in hits : i < m[j].line_number}) = j - 1
                   /\ m[j].line = RStripLF(fn.file_contents[m[j].line_number])

Outside(t) ==
    LET joined == IF inv[t].file_path.absolute THEN inv[t].file_path.parts
                  ELSE normalized_root \o inv[t].file_path.parts
    IN  ~IsRelativeTo(Normalize(joined, <<>>), normalized_root)

ValidArguments(t) == inv[t].keyword # <<>> /\ inv[t].max_matches >= 1

\* C2 as stated: every finished invocation whose file_path resolves outside the
\* root failed with the path-escape error, with no existence or type check made.
C2_OutsideAlwaysPathEscape ==
    \A t \in Finished :
        Outside(t) => /\ inv[t].pc = "raised"
                      /\ inv[t].error = "OutsideRoot"
                      /\ \A i \in 1..Len(inv[t].steps) :
                             inv[t].steps[i] \notin {"exists", "is_file", "read"}

\* C2 as amended: an invocation whose file_path resolves outside the root never
\* runs an existence check, a type check or a read and never returns; it is
\* never reported as not-found, not-a-file or undecodable; and when its keyword
\* is non-empty and its max_matches is at least 1 it fails with the path-escape
\* error.
C2_OutsideNeverProbed ==
    \A t \in Called :
        Outside(t) =>
            /\ inv[t].pc \in {"check_keyword", "check_max_matches", "ensure_within_root",
                              "raised"}
            /\ \A i \in 1..Len(inv[t].steps) :
                   inv[t].steps[i] \notin {"exists", "is_file", "read"}
            /\ inv[t].error \notin {"FileNotFound", "NotAFile", "Decode"}
            /\ (t \in Finished /\ ValidArguments(t)) => inv[t].error = "OutsideRoot"

\* an existing file outside the root, reached by "..", was refused by the guard
C2_Witness ==
    \E t \in Finished :
        /\ inv[t].file_path = Path(FALSE, <<"..", "etc", "passwd">>)
        /\ inv[t].error = "OutsideRoot"
        /\ inv[t].steps = <<"keyword", "max_matches", "resolve">>

\* C3: an invocation with an empty keyword or with max_matches < 1 fails with
\* a validation error and never resolves the path, checks existence or type,
\* or reads, whatever its file_path.
C3_ValidationBeforeFilesystem ==
    \A t \in Called :
        ~ValidArguments(t) =>
            /\ inv[t].pc \in {"check_keyword", "check_max_matches", "raised"}
            /\ \A i \in 1..Len(inv[t].steps) :
                   inv[t].steps[i] \in {"keyword", "max_matches"}
            /\ t \in Finished =>
                   /\ inv[t].error \in {"EmptyKeyword", "BadMaxMatches"}
                   /\ inv[t].keyword = <<>> => inv[t].error = "EmptyKeyword"
                   /\ inv[t].result = <<>>

\* max_matches = 0 was refused for a path that does not exist
C3_Witness ==
    \E t \in Finished :
        /\ inv[t].error = "BadMaxMatches"
        /\ inv[t].max_matches = 0
        /\ inv[t].file_path = Path(FALSE, <<"missing.txt">>)
        /\ inv[t].steps = <<"keyword", "max_matches">>

\* C4: a case-sensitive search returns no Match whose line lacks the keyword
\* in its exact case.
C4_CaseSensitiveMatchesContainKeyword ==
    \A t \in Returned :
        inv[t].case_sensitive =>
            \A j \in 1..Len(inv[t].matches) :
                Contains(inv[t].matches[j].line, inv[t].keyword)

\* a case-sensitive search that matched one line and passed over a line that
\* holds the keyword in the other case only
C4_Witness ==
    \E t \in Returned :
        /\ inv[t].case_sensitive
        /\ Len(inv[t].matches) >= 1
        /\ Len(inv[t].matches) < inv[t].max_matches
        /\ Cardinality(MatchingLineNumbers(ScannedLines(t), inv[t].keyword, FALSE))
               > Len(inv[t].matches)

\* C5: for the same lines, keyword and max_matches, every line the
\* case-sensitive comparison matches is matched by the case-insensitive
\* comparison too, and the case-insensitive result has no fewer matches.
C5_InsensitiveIsSuperset ==
    (fn.pc = "collected" /\ fn.case_sensitive) =>
        /\ MatchingLineNumbers(fn.file_contents, fn.keyword, TRUE)
               \subseteq MatchingLineNumbers(fn.file_contents, fn.keyword, FALSE)
        /\ Len(CollectMatches(fn.file_contents, fn.keyword, FALSE, fn.max_matches))
               >= Len(fn.matches)

\* the text of a block, cut at every "LF"
RECURSIVE CutAtLF(_, _)
CutAtLF(text, cur) ==
    IF text = <<>> THEN <<cur>>
    ELSE IF Head(text) = "LF" THEN <<cur>> \o CutAtLF(Tail(text), <<>>)
    ELSE CutAtLF(Tail(text), Append(cur, Head(text)))

\* C6: a returning invocation returns one text block when no line matched,
\* naming the keyword, the root-relative path and the case mode; otherwise two
\* text blocks: a summary with the number of matches collected, then the
\* rendered matches joined by newlines, one entry per match, in match order.
C6_ResponseBlocks ==
    \A t \in Returned :
        LET m == inv[t].matches
            blocks == inv[t].result
            relative == PathStr(RelativeTo(inv[t].resolved_path, normalized_root))
        IN  /\ \A b \in 1..Len(blocks) : blocks[b].type = "text"
            /\ m = <<>> =>
                   /\ Len(blocks) = 1
                   /\ Contains(blocks[1].text, inv[t].keyword)
                   /\ Contains(blocks[1].text, relative)
                   /\ Contains(blocks[1].text,
                               <<IF inv[t].case_sensitive THEN "sensitive" ELSE "insensitive">>)
            /\ m # <<>> =>
                   /\ Len(blocks) = 2
                   /\ Contains(blocks[1].text,
                               <<"Found ">> \o Digits(Len(m)) \o <<" match(es) for '">>)
                   /\ Contains(blocks[1].text, relative)
                   /\ CutAtLF(blocks[2].text, <<>>)
                          = [j \in 1..Len(m) |->
                                 Format(m[j], inv[t].keyword, inv[t].case_sensitive)]

\* a search that returned two blocks for two matched lines
C6_Witness ==
    \E t \in Returned :
        /\ Len(inv[t].matches) = 2
        /\ Len(inv[t].result) = 2
        /\ Len(CutAtLF(inv[t].result[2].text, <<>>)) = 2

\* C7: for a Match whose line contains the (folded) keyword, format renders
\* "{line_number}: {prefix}[{matched}]{suffix}": prefix, matched and suffix are
\* consecutive slices of the line that concatenate to it, prefix ends at the
\* offset of the first occurrence of the folded keyword in the folded line and
\* matched has the keyword's length.
C7_FirstOccurrenceBracketed ==
    fn.pc = "formatted" =>
        LET line == fn.matches[fn.index].line
            start == Find(Fold(line, fn.case_sensitive), Fold(fn.keyword, fn.case_sensitive))
            stop == start + Len(fn.keyword)
        IN  start # -1 =>
                /\ stop <= Len(line)
                /\ fn.rendered = Digits(fn.matches[fn.index].line_number) \o <<":", " ">>
                                 \o SubSeq(line, 1, start) \o <<"[">>
                                 \o SubSeq(line, start + 1, stop) \o <<"]">>
                                 \o SubSeq(line, stop + 1, Len(line))

FailingStep(t) ==
    LET resolved == ResolveAgainst(inv[t].file_path, normalized_root)
    IN  IF inv[t].keyword = <<>> THEN 1
        ELSE IF inv[t].max_matches < 1 THEN 2
        ELSE IF ~IsRelativeTo(resolved, normalized_root) THEN 3
        ELSE IF resolved \notin FsDirs \cup FsFiles THEN 4
        ELSE IF resolved \notin FsFiles THEN 5
        ELSE IF resolved = BlobFile THEN 6
        ELSE 0

StepOrder == <<"keyword", "max_matches", "resolve", "exists", "is_file", "read">>
StepError == <<"EmptyKeyword", "BadMaxMatches", "OutsideRoot", "FileNotFound", "NotAFile",
               "Decode">>

\* C8: the steps of an invocation run in the order keyword validation,
\* max_matches validation, path containment, existence, regular-file check,
\* read and decode, each at most once; the invocation ends at the first step
\* that fails, with that step's error, no later step and no content block; it
\* returns only when all six steps passed.
C8_TerminalOnFirstFailure ==
    \A t \in Called :
        LET n == Len(inv[t].steps)
            f == FailingStep(t)
        IN  /\ n <= Len(StepOrder)
            /\ inv[t].steps = SubSeq(StepOrder, 1, n)
            /\ f # 0 => n <= f
            /\ inv[t].pc = "raised" =>
                   /\ f # 0
                   /\ n = f
                   /\ inv[t].error = StepError[f]
                   /\ inv[t].result = <<>>
                   /\ inv[t].matches = <<>>
            /\ inv[t].pc = "returned" =>
                   /\ f = 0
                   /\ n = Len(StepOrder)
                   /\ inv[t].error = NoError
                   /\ inv[t].result # <<>>
            /\ inv[t].pc \notin {"raised", "returned"} =>
                   inv[t].error = NoError /\ inv[t].result = <<>>

\* an invocation that passed both validations and the path guard and ended at
\* the existence check
C8_Witness ==
    \E t \in Finished :
        /\ inv[t].error = "FileNotFound"
        /\ inv[t].steps = <<"keyword", "max_matches", "resolve", "exists">>
        /\ inv[t].result = <<>>

\* what search_keyword gives when it runs alone on the request of task t
Alone(t) ==
    LET f == FailingStep(t)
        resolved == ResolveAgainst(inv[t].file_path, <<"ws">>)
        text == IF resolved = NotesFile THEN disk ELSE <<"r", "o", "o", "t">>
    IN  IF f # 0 THEN [error |-> StepError[f], result |-> <<>>]
        ELSE [error |-> NoError,
              result |-> Response(CollectMatches(Splitlines(text), inv[t].keyword,
                                                 inv[t].case_sensitive, inv[t].max_matches),
                                  inv[t].keyword, inv[t].case_sensitive,
                                  RelativeTo(resolved, <<"ws">>))]

\* C9: under every interleaving of concurrent invocations the workspace root
\* stays the one build_server resolved, and the outcome of each invocation
\* (result blocks or error) is the outcome of the same request run alone on the
\* same file contents.
C9_OutcomeAsIfAlone ==
    /\ normalized_root = <<"ws">>
    /\ \A t \in Finished :
           [error |-> inv[t].error, result |-> inv[t].result] = Alone(t)

\* two invocations with different outcomes, the first finishing while the
\* second was in flight
C9_Witness ==
    /\ Finished = Tasks
    /\ inv[1].overlapped
    /\ inv[1].pc = "returned"
    /\ Len(inv[1].result) = 2
    /\ inv[2].error = "Decode"

\* the j-th rendered entry of the response of task t
RenderedEntry(t, j) == CutAtLF(inv[t].result[2].text, <<>>)[j]

\* C10: for every Match a returning invocation collected, format finds the
\* keyword in the stored line and never takes the fallback, so the rendered
\* entry is the line with brackets put around an occurrence of the keyword
\* (in the case mode of the search).
C10_EntriesBracketKeyword ==
    \A t \in Returned :
        \A j \in 1..Len(inv[t].matches) :
            LET line == inv[t].matches[j].line
                number == Digits(inv[t].matches[j].line_number) \o <<":", " ">>
                highlight == Fold(inv[t].keyword, inv[t].case_sensitive)
            IN  /\ Find(Fold(line, inv[t].case_sensitive), highlight) # -1
                /\ \E a \in 0..Len(line) : \E b \in a..Len(line) :
                       /\ RenderedEntry(t, j) = number \o SubSeq(line, 1, a) \o <<"[">>
                                                \o SubSeq(line, a + 1, b) \o <<"]">>
                                                \o SubSeq(line, b + 1, Len(line))
                       /\ Fold(SubSeq(line, a + 1, b), inv[t].case_sensitive) = highlight

\* C10, the part that does not depend on where the brackets are put: format
\* finds the keyword in the stored line of every Match collected, and the
\* entry is rendered with brackets, not by the fallback.
C10_FallbackNeverTaken ==
    \A t \in Returned :
        \A j \in 1..Len(inv[t].matches) :
            LET line == inv[t].matches[j].line
            IN  /\ Find(Fold(line, inv[t].case_sensitive),
                        Fold(inv[t].keyword, inv[t].case_sensitive)) # -1
                /\ Contains(RenderedEntry(t, j), <<"[">>)
                /\ RenderedEntry(t, j)
                       # Digits(inv[t].matches[j].line_number) \o <<":", " ">> \o Strip(line)

\* a matched line that ended with a newline in the file
C10_Witness ==
    \E t \in Returned :
        /\ Len(inv[t].matches) >= 1
        /\ inv[t].matches[1].line_number < Len(ScannedLines(t))
        /\ Contains(inv[t].thread_result.text,
                    Append(inv[t].matches[1].line, "LF"))

====
